---------------------------- MODULE Spec2Model ----------------------------
(***************************************************************************)
(* License lifecycle and activation protocol of license-provider.          *)
(*                                                                         *)
(*   generate_license.py  issues keys and stores their hashes in the       *)
(*                        licenses table (store_hash, generate_license)    *)
(*   server.py            POST /validate_license: looks the hash up and    *)
(*                        decides; the first validation binds the license  *)
(*                        to the caller's installation id                  *)
(*   read_licenses.py     the report: lists the rows a filter selects       *)
(*                                                                         *)
(* Strings are sequences of one-character strings.  Time is the integer    *)
(* clock int(time.time()); one day is DayLen ticks of it.  A request of    *)
(* the server is a thread of the (threaded) Flask server; its steps are    *)
(* its accesses to the shared table: the row read of                       *)
(* get_license_row_by_hash, with the decision taken on the row (the clock  *)
(* of line 96 is read in the same step), and the write of                  *)
(* activate_license.                                                       *)
(***************************************************************************)
EXTENDS Integers, Sequences, FiniteSets, TLC

VARIABLES
    db,        \* the licenses table: a set of rows
    now,       \* the clock, int(time.time())
    phase,     \* "admin": the table is with the generator; "online": served
    gen,       \* the generator's run: its inputs and the keys it has returned
    req        \* the requests of the server, each with its local variables

vars == <<db, now, phase, gen, req>>

(***************************************************************************)
(* Bounds of the model.                                                    *)
(***************************************************************************)
NumReqs == 2        \* validate_license requests that may overlap
MaxTicks == 1       \* clock ticks in one run
MaxTotal == 2       \* licenses asked of one run of the generator
DayLen == 2         \* clock ticks in a day (86400 in the program)

NumFailReqs == 1    \* requests that arrive while the store may be unavailable

MaxAttempts == 10   \* range(10): the attempts of one generate_license call

Early == 1..NumReqs                 \* the requests that may overlap
Late == NumReqs + 1                 \* a request that arrives after them
Reqs == Early \cup {Late}
StartTime == DayLen                 \* the run starts at a midnight
EndTime == StartTime + MaxTicks

(***************************************************************************)
(* Values.                                                                 *)
(***************************************************************************)
\* SQL NULL / Python None, and the non-null values of a column
NullText == [isNull |-> TRUE, val |-> <<>>]
NullInt == [isNull |-> TRUE, val |-> 0]
Val(v) == [isNull |-> FALSE, val |-> v]

\* a field of the JSON body: absent (data.get gives None) or a string
Absent == [present |-> FALSE, str |-> <<>>]
Str(s) == [present |-> TRUE, str |-> s]

KeyPool == { <<"A">>, <<"B">> }     \* the keys uuid4 can produce
RawLicenses == { Absent, Str(<<" ">>), Str(<<"A">>), Str(<<" ", "A">>),
                 Str(<<"C">>) }
RawInstallIds == { Absent, Str(<<"X">>), Str(<<"X", " ">>), Str(<<"Y">>) }
DaysValidChoices == { -1, 0, 1 }    \* int(input(...)): any integer
Metadatas == { NullText }

\* (data.get(field) or ""): None and "" both give ""
OrEmpty(f) == IF f.present THEN f.str ELSE <<>>

\* str.strip(): leading and trailing white space removed
RECURSIVE LStrip(_)
LStrip(s) == IF s # <<>> /\ Head(s) = " " THEN LStrip(Tail(s)) ELSE s

RECURSIVE RStrip(_)
RStrip(s) ==
    IF s # <<>> /\ s[Len(s)] = " " THEN RStrip(SubSeq(s, 1, Len(s) - 1)) ELSE s

Strip(s) == RStrip(LStrip(s))

\* hash_key: sha256 hex digest, taken to be free of collisions
HashKey(key) == [sha256 |-> key]

(***************************************************************************)
(* The licenses table.                                                     *)
(***************************************************************************)
\* the row INSERT builds: activated_at, activation_id NULL, revoked DEFAULT 0
NewRow(id, key_hash, created, expires, metadata) ==
    [ id |-> id, key_hash |-> key_hash, created_at |-> created,
      expires_at |-> expires, activated_at |-> NullInt,
      activation_id |-> NullText, revoked |-> FALSE, metadata |-> metadata ]

\* store_hash: INSERT OR IGNORE; a row with the same key_hash (UNIQUE) makes
\* the statement a no-op.  The expiry is computed through local datetimes;
\* the server's zone is taken to have a fixed offset.
StoreHash(table, key_hash, t, days_valid, metadata) ==
    IF \E row \in table : row.key_hash = key_hash
    THEN table
    ELSE table \cup
           { NewRow(Cardinality(table) + 1, key_hash, t,
                    t + days_valid * DayLen, metadata) }

\* what store_hash raises to its caller when the key_hash has a row already:
\* nothing, since OR IGNORE resolves the UNIQUE conflict without an error
IntegrityError(table, key_hash) == FALSE

\* get_license_row_by_hash without its WHERE clause: fetchone() gives the
\* first row of the table
GetFirstRow(table, k_hash) ==
    { row \in table : row.id = 1 }

\* get_license_row_by_hash: SELECT ... WHERE key_hash=? fetchone(); the
\* result is the set holding the row, or {} for None
GetLicenseRowByHash(table, k_hash) ==
    { row \in table : row.key_hash = k_hash }

\* activate_license storing NULL for an empty installation id
ActivateLicenseNullIfEmpty(table, k_hash, install_id, t) ==
    { IF row.key_hash = k_hash
      THEN [row EXCEPT !.activated_at = Val(t),
                       !.activation_id = IF install_id = <<>> THEN NullText
                                         ELSE Val(install_id)]
      ELSE row : row \in table }

\* activate_license with an UPDATE that sets activation_id alone
ActivateLicenseIdOnly(table, k_hash, install_id, t) ==
    { IF row.key_hash = k_hash
      THEN [row EXCEPT !.activation_id = Val(install_id)]
      ELSE row : row \in table }

\* activate_license: UPDATE ... SET activated_at, activation_id WHERE key_hash=?
ActivateLicense(table, k_hash, install_id, t) ==
    { IF row.key_hash = k_hash
      THEN [row EXCEPT !.activated_at = Val(t),
                       !.activation_id = Val(install_id)]
      ELSE row : row \in table }

(***************************************************************************)
(* read_licenses.py: the report reads the table of the server at the clock *)
(* now_ts and prints the rows its filter selects.                          *)
(***************************************************************************)
\* choice 2, 'Only activated licenses'
OnlyActivated(table, now_ts) ==
    { row \in table : /\ ~row.activated_at.isNull
                      /\ ~row.revoked
                      /\ row.expires_at > now_ts }

\* choice 3, 'Only expired licenses'
OnlyExpired(table, now_ts) ==
    { row \in table : row.expires_at <= now_ts /\ ~row.revoked }

(***************************************************************************)
(* validate_license.                                                       *)
(***************************************************************************)
Response(status, success, message, expires) ==
    [ status |-> status, success |-> success, message |-> message,
      expires_at |-> expires ]

NoResponse == Response(0, FALSE, "", NullInt)

\* the answer to an empty key sent as a rejection, with status 403
MissingLicenseForbidden == Response(403, FALSE, "Missing license.", NullInt)

MissingLicense == Response(400, FALSE, "Missing license.", NullInt)
InvalidLicense == Response(403, FALSE, "Invalid license.", NullInt)
LicenseRevoked == Response(403, FALSE, "License revoked.", NullInt)
LicenseExpired == Response(403, FALSE, "License expired.", NullInt)
OtherDevice ==
    Response(403, FALSE, "License already used on another device.", NullInt)
LicenseActivated(row) ==
    Response(200, TRUE, "License activated.", Val(row.expires_at))
WelcomeBack(row) == Response(200, TRUE, "Welcome back!", Val(row.expires_at))

\* the framework's answer when the handler raises: validate_license catches
\* no exception of get_license_row_by_hash or activate_license
ServerError == Response(500, FALSE, "Internal Server Error", NullInt)

\* Python truth of an INTEGER column value: 0 is false
Truthy(n) == n # 0

\* Decide with the expiry test placed before the revocation test
DecideExpiryFirst(row, install_id, t) ==
    IF Truthy(row.expires_at) /\ t > row.expires_at
    THEN [resp |-> LicenseExpired, activate |-> FALSE]
    ELSE IF row.revoked
    THEN [resp |-> LicenseRevoked, activate |-> FALSE]
    ELSE IF row.activation_id.isNull
    THEN [resp |-> LicenseActivated(row), activate |-> TRUE]
    ELSE IF row.activation_id = Val(install_id)
    THEN [resp |-> WelcomeBack(row), activate |-> FALSE]
    ELSE [resp |-> OtherDevice, activate |-> FALSE]

\* Decide without the comparison of the installation ids: an activated
\* license welcomes every caller back
DecideAnyDevice(row, install_id, t) ==
    IF row.revoked
    THEN [resp |-> LicenseRevoked, activate |-> FALSE]
    ELSE IF Truthy(row.expires_at) /\ t > row.expires_at
    THEN [resp |-> LicenseExpired, activate |-> FALSE]
    ELSE IF row.activation_id.isNull
    THEN [resp |-> LicenseActivated(row), activate |-> TRUE]
    ELSE [resp |-> WelcomeBack(row), activate |-> FALSE]

\* Decide with the first activation done ahead of the expiry test: a
\* never-activated license is bound also when the request is then rejected
DecideActivateFirst(row, install_id, t) ==
    IF row.revoked
    THEN [resp |-> LicenseRevoked, activate |-> FALSE]
    ELSE IF Truthy(row.expires_at) /\ t > row.expires_at
    THEN [resp |-> LicenseExpired, activate |-> row.activation_id.isNull]
    ELSE IF row.activation_id.isNull
    THEN [resp |-> LicenseActivated(row), activate |-> TRUE]
    ELSE IF row.activation_id = Val(install_id)
    THEN [resp |-> WelcomeBack(row), activate |-> FALSE]
    ELSE [resp |-> OtherDevice, activate |-> FALSE]

\* lines 93-110 on the row read, the installation id and the clock read at
\* line 96; activate says whether activate_license is called before returning
Decide(row, install_id, t) ==
    IF row.revoked
    THEN [resp |-> LicenseRevoked, activate |-> FALSE]
    ELSE IF Truthy(row.expires_at) /\ t > row.expires_at
    THEN [resp |-> LicenseExpired, activate |-> FALSE]
    ELSE IF row.activation_id.isNull
    THEN [resp |-> LicenseActivated(row), activate |-> TRUE]
    ELSE IF row.activation_id = Val(install_id)
    THEN [resp |-> WelcomeBack(row), activate |-> FALSE]
    ELSE [resp |-> OtherDevice, activate |-> FALSE]

\* a request that has not arrived.  pc is the request's position: "idle",
\* "activate" (the row is read and found never activated; activate_license
\* is called, line 102), "done" (the response is returned).
NewRequest ==
    [ pc |-> "idle", license_key |-> <<>>, install_id |-> <<>>,
      resp |-> NoResponse ]

\* lines 80-110 up to the call of activate_license: the body is parsed, the
\* key hashed, the row read and the decision taken at clock t
Receive(table, license, installation_id, t) ==
    LET license_key == Strip(OrEmpty(license))
        install_id == Strip(OrEmpty(installation_id))
        row == GetLicenseRowByHash(table, HashKey(license_key))
        d == Decide(CHOOSE x \in row : TRUE, install_id, t)
    IN  IF license_key = <<>>
        THEN [ pc |-> "done", license_key |-> license_key,
               install_id |-> install_id, resp |-> MissingLicense ]
        ELSE IF row = {}
        THEN [ pc |-> "done", license_key |-> license_key,
               install_id |-> install_id, resp |-> InvalidLicense ]
        ELSE [ pc |-> IF d.activate THEN "activate" ELSE "done",
               license_key |-> license_key, install_id |-> install_id,
               resp |-> d.resp ]

\* lines 80-88 with the exception of the lookup taken for a missing row
UnavailableAsNone(license, installation_id) ==
    [ pc |-> "done", license_key |-> Strip(OrEmpty(license)),
      install_id |-> Strip(OrEmpty(installation_id)), resp |-> InvalidLicense ]

\* lines 80-88 when get_license_row_by_hash raises (sqlite3.connect or the
\* SELECT fails): the exception leaves the handler
Unavailable(license, installation_id) ==
    [ pc |-> "done", license_key |-> Strip(OrEmpty(license)),
      install_id |-> Strip(OrEmpty(installation_id)), resp |-> ServerError ]

(***************************************************************************)
(* Initial state and actions.                                              *)
(***************************************************************************)
\* the generator after its run: the process has exited
GenExited ==
    [ total |-> 0, days_valid |-> 0, metadata |-> NullText, licenses |-> <<>>,
      attempt |-> 0, error |-> "none" ]

\* the generator's main: the table is created empty, and the number of
\* licenses, their validity and their metadata are read from the operator
Init ==
    /\ db = {}
    /\ now = StartTime
    /\ phase = "admin"
    /\ gen \in [ total : 0..MaxTotal, days_valid : DaysValidChoices,
                 metadata : Metadatas, licenses : {<<>>},
                 attempt : {0}, error : {"none"} ]
    /\ req = [r \in Reqs |-> NewRequest]

\* one attempt of generate_license, called by bulk_generate: a key is drawn
\* and its hash stored.  The key is returned (and appended to licenses)
\* unless store_hash raised IntegrityError; then the next attempt follows,
\* and after the last one RuntimeError ends the run.
GenerateLicense(key) ==
    /\ phase = "admin"
    /\ gen.error = "none"
    /\ Len(gen.licenses) < gen.total
    /\ db' = StoreHash(db, HashKey(key), now, gen.days_valid, gen.metadata)
    /\ gen' = IF ~IntegrityError(db, HashKey(key))
              THEN [gen EXCEPT !.licenses = Append(@, key), !.attempt = 0]
              ELSE IF gen.attempt = MaxAttempts - 1
              THEN [gen EXCEPT !.error = "RuntimeError"]
              ELSE [gen EXCEPT !.attempt = @ + 1]
    /\ UNCHANGED <<now, phase, req>>

\* bulk_generate has returned, or RuntimeError has ended it; the table file
\* is uploaded to the server
Upload ==
    /\ phase = "admin"
    /\ Len(gen.licenses) = gen.total \/ gen.error # "none"
    /\ phase' = "online"
    /\ gen' = GenExited
    /\ UNCHANGED <<db, now, req>>

\* the administrator sets the revoked flag of a row
Revoke(k_hash) ==
    /\ \E row \in db : row.key_hash = k_hash /\ ~row.revoked
    /\ db' = { IF row.key_hash = k_hash THEN [row EXCEPT !.revoked = TRUE]
               ELSE row : row \in db }
    /\ UNCHANGED <<now, phase, gen, req>>

\* a second passes
Tick ==
    /\ now < EndTime
    /\ now' = now + 1
    /\ UNCHANGED <<db, phase, gen, req>>

\* a request arrives: validate_license runs up to its return, or up to its
\* call of activate_license
Arrive(r, license, installation_id) ==
    /\ phase = "online"
    /\ req[r].pc = "idle"
    /\ req' = [req EXCEPT ![r] = Receive(db, license, installation_id, now)]
    /\ UNCHANGED <<db, now, phase, gen>>

\* the requests that may overlap arrive in the order of their numbers
Begin(r, license, installation_id) ==
    /\ \A q \in Early : q < r => req[q].pc # "idle"
    /\ Arrive(r, license, installation_id)

\* activate_license writes the row, and validate_license returns (line 103)
Activate(r) ==
    /\ req[r].pc = "activate"
    /\ db' = ActivateLicense(db, HashKey(req[r].license_key),
                             req[r].install_id, now)
    /\ req' = [req EXCEPT ![r].pc = "done"]
    /\ UNCHANGED <<now, phase, gen>>

Next ==
    \/ \E key \in KeyPool : GenerateLicense(key)
    \/ Upload
    \/ \E key \in KeyPool : Revoke(HashKey(key))
    \/ Tick
    \/ \E r \in Early, license \in RawLicenses,
          installation_id \in RawInstallIds : Begin(r, license, installation_id)
    \/ \E r \in Reqs : Activate(r)

Spec == Init /\ [][Next]_vars

(***************************************************************************)
(* Sequential execution: a request arrives when no other is in progress.   *)
(***************************************************************************)
BeginSeq(r, license, installation_id) ==
    /\ \A q \in Reqs : req[q].pc \in {"idle", "done"}
    /\ Begin(r, license, installation_id)

NextSeq ==
    \/ \E key \in KeyPool : GenerateLicense(key)
    \/ Upload
    \/ \E key \in KeyPool : Revoke(HashKey(key))
    \/ Tick
    \/ \E r \in Early, license \in RawLicenses,
          installation_id \in RawInstallIds :
            BeginSeq(r, license, installation_id)
    \/ \E r \in Reqs : Activate(r)

SpecSeq == Init /\ [][NextSeq]_vars

(***************************************************************************)
(* A returning client: after the overlapping requests were answered, one   *)
(* more request arrives.                                                   *)
(***************************************************************************)
BeginLate(license, installation_id) ==
    /\ \A q \in Early : req[q].pc = "done"
    /\ Arrive(Late, license, installation_id)

NextLate ==
    \/ Next
    \/ \E license \in RawLicenses, installation_id \in RawInstallIds :
          BeginLate(license, installation_id)

SpecLate == Init /\ [][NextLate]_vars

(***************************************************************************)
(* The store may be unavailable: an access of a request to the table may   *)
(* raise sqlite3.Error.  The requests numbered up to NumFailReqs arrive.   *)
(***************************************************************************)
FailReqs == 1..NumFailReqs

\* a request with a key arrives and its lookup raises (a request without a
\* key returns at line 85, before it touches the table)
LookupFails(r, license, installation_id) ==
    /\ phase = "online"
    /\ req[r].pc = "idle"
    /\ \A q \in Early : q < r => req[q].pc # "idle"
    /\ Strip(OrEmpty(license)) # <<>>
    /\ req' = [req EXCEPT ![r] = Unavailable(license, installation_id)]
    /\ UNCHANGED <<db, now, phase, gen>>

\* activate_license raises: the connection, the UPDATE or the commit fails,
\* and leaving the with block rolls the transaction back
ActivateFails(r) ==
    /\ req[r].pc = "activate"
    /\ req' = [req EXCEPT ![r].pc = "done", ![r].resp = ServerError]
    /\ UNCHANGED <<db, now, phase, gen>>

NextFail ==
    \/ \E key \in KeyPool : GenerateLicense(key)
    \/ Upload
    \/ \E key \in KeyPool : Revoke(HashKey(key))
    \/ Tick
    \/ \E r \in FailReqs, license \in RawLicenses,
          installation_id \in RawInstallIds :
            \/ Begin(r, license, installation_id)
            \/ LookupFails(r, license, installation_id)
    \/ \E r \in FailReqs : Activate(r) \/ ActivateFails(r)

SpecFail == Init /\ [][NextFail]_vars

(***************************************************************************)
(* The claims.                                                             *)
(***************************************************************************)
\* request r arrives in this step: lines 80-110 run on the table and the
\* clock of the step's first state
Arrives(r) == req[r].pc = "idle" /\ req'[r].pc # "idle"

\* request r returns from activate_license in this step
Activated(r) == req[r].pc = "activate" /\ req'[r].pc = "done"

\* the rows of a table with the key request r submits in this step
RowRead(table, r) ==
    { row \in table : row.key_hash = HashKey(req'[r].license_key) }

\* the rows of a table with the key request r has submitted
RowOf(table, r) ==
    { row \in table : row.key_hash = HashKey(req[r].license_key) }

\* request q was answered 'License activated.'
ToldActivated(q) ==
    req[q].pc = "done" /\ req[q].resp.message = "License activated."

\* C1: two requests for the same license with different installation ids
\* never both receive a success response.
C1_OneWinner ==
    \A r, q \in Reqs :
        ( /\ r # q
          /\ req[r].pc = "done" /\ req[q].pc = "done"
          /\ req[r].license_key = req[q].license_key
          /\ req[r].install_id # req[q].install_id )
        => ~(req[r].resp.success /\ req[q].resp.success)

\* C2: once a row's activation_id holds a value, no step changes it.
C2_BoundOnce ==
    [][ \A row \in db : ~row.activation_id.isNull =>
          \E after \in db' : /\ after.key_hash = row.key_hash
                             /\ after.activation_id = row.activation_id ]_vars

\* C3: a request for a license that is revoked and past its expires_at is
\* answered 'License revoked.', whatever the installation id and the
\* activation state.
C3_RevokedBeforeExpired ==
    [][ \A r \in Reqs : Arrives(r) =>
          \A row \in RowRead(db, r) :
            (row.revoked /\ now > row.expires_at) =>
                /\ req'[r].pc = "done"
                /\ req'[r].resp = LicenseRevoked ]_vars

\* a license issued with an expires_at already past was revoked, and a
\* request for it was answered 'License revoked.'
C3_Witness ==
    \E r \in Reqs :
        /\ req[r].pc = "done"
        /\ req[r].resp = LicenseRevoked
        /\ \E row \in RowOf(db, r) :
              /\ row.revoked
              /\ row.expires_at # 0
              /\ row.expires_at < row.created_at

\* C4: a request for a non-revoked license whose expires_at is earlier than
\* the current time is answered 'License expired.' and the license is not
\* activated, whatever the activation state.
C4_ExpiredWhateverBinding ==
    [][ \A r \in Reqs : Arrives(r) =>
          \A row \in RowRead(db, r) :
            (~row.revoked /\ row.expires_at < now) =>
                /\ req'[r].pc = "done"
                /\ req'[r].resp = LicenseExpired
                /\ db' = db ]_vars

\* C5 (sequential execution): the validation of a non-revoked, unexpired,
\* never-activated license is answered 'License activated.' and binds the
\* row to the caller's id; a validation with another id that follows, the
\* license still non-revoked and unexpired, is answered 'License already used
\* on another device.' and the row stays bound to the first id.
C5_FirstThenOther ==
    [][ \A r \in Reqs :
          /\ Arrives(r) =>
               \A row \in RowRead(db, r) :
                 (~row.revoked /\ now <= row.expires_at) =>
                   /\ row.activation_id.isNull =>
                        /\ req'[r].pc = "activate"
                        /\ req'[r].resp = LicenseActivated(row)
                   /\ \A q \in Reqs :
                        ( /\ ToldActivated(q)
                          /\ req[q].license_key = req'[r].license_key
                          /\ req[q].install_id # req'[r].install_id )
                        => /\ req'[r].pc = "done"
                           /\ req'[r].resp = OtherDevice
                           /\ db' = db
                           /\ row.activation_id = Val(req[q].install_id)
          /\ Activated(r) =>
               /\ req'[r].resp.message = "License activated."
               /\ \A row \in RowOf(db', r) :
                    row.activation_id = Val(req[r].install_id) ]_vars

\* A was told 'License activated.', then B 'License already used on another
\* device.', and the row is bound to A
C5_Witness ==
    \E r, q \in Reqs :
        /\ r < q
        /\ ToldActivated(r)
        /\ req[q].pc = "done" /\ req[q].resp = OtherDevice
        /\ req[r].license_key = req[q].license_key
        /\ req[r].install_id # req[q].install_id
        /\ \E row \in RowOf(db, r) :
              row.activation_id = Val(req[r].install_id)

\* C6: after a validation with installation id X was answered 'License
\* activated.', every validation with X that arrives later and finds the
\* license non-revoked and unexpired is answered 'Welcome back!'.
C6_WelcomeBack ==
    [][ \A r \in Reqs : Arrives(r) =>
          \A row \in RowRead(db, r) :
            ( /\ ~row.revoked
              /\ now <= row.expires_at
              /\ \E q \in Reqs :
                    /\ ToldActivated(q)
                    /\ req[q].license_key = req'[r].license_key
                    /\ req[q].install_id = req'[r].install_id )
            => /\ req'[r].pc = "done"
               /\ req'[r].resp = WelcomeBack(row) ]_vars

\* C7: a request that arrives when the row's revoked flag is set, or when
\* the clock has passed the row's expires_at, is answered 'License revoked.'
\* or 'License expired.'.
C7_Terminal ==
    [][ \A r \in Reqs : Arrives(r) =>
          \A row \in RowRead(db, r) :
            (row.revoked \/ now > row.expires_at) =>
                /\ req'[r].pc = "done"
                /\ req'[r].resp \in {LicenseRevoked, LicenseExpired} ]_vars

\* C8: a step of a request that changes the table is the last step of a
\* request answered with success; so a request answered 400 or 403 has left
\* every row as it was, and has added and deleted none.
C8_RejectionsWriteNothing ==
    [][ \A r \in Reqs : req'[r] # req[r] =>
          /\ db' # db =>
               /\ req'[r].pc = "done"
               /\ req'[r].resp.status = 200
               /\ req'[r].resp.success
          /\ (req'[r].pc = "done" /\ req'[r].resp.status \in {400, 403})
               => db' = db ]_vars

\* in a table of two rows, one request was told the license is used on
\* another device, after another had activated it
C8_Witness ==
    /\ Cardinality(db) = 2
    /\ \E r, q \in Reqs :
          /\ ToldActivated(q)
          /\ req[r].pc = "done" /\ req[r].resp = OtherDevice
          /\ req[r].license_key = req[q].license_key

\* C9: a request with a non-empty key whose hash is in no row is answered
\* 'Invalid license.', whatever its installation id, and the table is
\* unchanged.
C9_UnknownKey ==
    [][ \A r \in Reqs :
          ( /\ Arrives(r)
            /\ req'[r].license_key # <<>>
            /\ RowRead(db, r) = {} )
          => /\ req'[r].pc = "done"
             /\ req'[r].resp = InvalidLicense
             /\ db' = db ]_vars

\* an unknown key with no installation id was rejected as invalid, the
\* table holding other licenses
C9_Witness ==
    \E r \in Reqs :
        /\ req[r].pc = "done"
        /\ req[r].resp = InvalidLicense
        /\ req[r].license_key = <<"C">>
        /\ req[r].install_id = <<>>
        /\ db # {}

\* C10: a request for a non-revoked license is answered 'License expired.'
\* exactly when the current time is greater than the row's expires_at.
C10_ExpiryComparison ==
    [][ \A r \in Reqs : Arrives(r) =>
          \A row \in RowRead(db, r) :
            ~row.revoked =>
               ((now > row.expires_at) <=> (req'[r].resp = LicenseExpired)) ]_vars

\* generate_license draws, in this step, a key whose hash has a row already
Collides(key) ==
    /\ GenerateLicense(key)
    /\ \E row \in db : row.key_hash = HashKey(key)

\* C11: store_hash on a key_hash that has a row already raises the duplicate
\* condition to its caller and leaves the table as it was, no key_hash in
\* two rows.
C11_DuplicateReported ==
    [][ \A key \in KeyPool : Collides(key) =>
          /\ IntegrityError(db, HashKey(key))
          /\ db' = db
          /\ \A row, other \in db' :
                row.key_hash = other.key_hash => row = other ]_vars

\* C12: when the key drawn collides with a row, generate_license does not
\* return it: it goes to its next attempt, and after the attempt numbered
\* MaxAttempts - 1 it ends with RuntimeError.
C12_RetryOnCollision ==
    [][ \A key \in KeyPool : Collides(key) =>
          /\ gen'.licenses = gen.licenses
          /\ IF gen.attempt = MaxAttempts - 1
             THEN gen'.error = "RuntimeError"
             ELSE gen'.error = "none" /\ gen'.attempt = gen.attempt + 1 ]_vars

\* the messages of the Accepted and of the Rejected decisions
AcceptedMessages == { "License activated.", "Welcome back!" }
RejectedMessages ==
    { "Invalid license.", "License revoked.", "License expired.",
      "License already used on another device." }

\* C13: the response of validate_license has status 400 exactly when
\* license_key, the key submitted with None taken for '' and trimmed, is
\* empty, status 200 and success exactly when its message is 'License
\* activated.' or 'Welcome back!', and status 403 without success for each
\* of the four rejections.
C13_StatusCodes ==
    [][ \A r \in Reqs : Arrives(r) =>
          LET resp == req'[r].resp
          IN  /\ resp.status \in {400, 200, 403}
              /\ (resp.status = 400) <=> (req'[r].license_key = <<>>)
              /\ (resp.status = 400) <=> (resp.message = "Missing license.")
              /\ (resp.status = 200) <=> resp.success
              /\ (resp.status = 200) <=> (resp.message \in AcceptedMessages)
              /\ (resp.status = 403) <=> (resp.message \in RejectedMessages)
      ]_vars

\* a request without a key was answered 400, and a request that activated a
\* license 200
C13_Witness ==
    \E r, q \in Reqs :
        /\ req[r].pc = "done" /\ req[r].resp.status = 400
        /\ req[r].license_key = <<>>
        /\ ToldActivated(q) /\ req[q].resp.status = 200

\* the request r that the failing store has ended in this step was answered
\* with a server-side failure, and the table is as it was
ServerSideFailure(r) ==
    /\ req'[r].pc = "done"
    /\ req'[r].resp.status = 500
    /\ ~req'[r].resp.success
    /\ req'[r].resp.message \notin AcceptedMessages \cup RejectedMessages
    /\ db' = db

\* C14: a request whose lookup or whose activation write raises a storage
\* error ends as a server-side failure: it is answered neither 'Invalid
\* license.' nor another rejection nor a success, and the table is unchanged.
C14_StoreUnavailable ==
    [][ \A r \in Reqs :
          /\ Arrives(r) =>
               \A license \in RawLicenses, installation_id \in RawInstallIds :
                 LookupFails(r, license, installation_id)
                   => ServerSideFailure(r)
          /\ ActivateFails(r) => ServerSideFailure(r) ]_vars

\* a request for a license of the table, never activated, not revoked and
\* not expired, ended as a server-side failure, and the license is as it was
C14_Witness ==
    \E r \in Reqs :
        /\ req[r].pc = "done" /\ req[r].resp = ServerError
        /\ \E row \in RowOf(db, r) :
              /\ row.activation_id.isNull /\ row.activated_at.isNull
              /\ ~row.revoked /\ now <= row.expires_at

\* C15: a step of validate_license adds and deletes no row and leaves
\* key_hash, created_at, expires_at, revoked and metadata of every row; it
\* changes a row only by the activation of a never-activated row, so once in
\* the row's life, and a request answered 'Welcome back!' changes nothing.
C15_MutatedOnce ==
    [][ \A r \in Reqs : req'[r] # req[r] =>
          /\ Cardinality(db') = Cardinality(db)
          /\ \A row \in db : \E after \in db' :
                /\ after.id = row.id
                /\ after.key_hash = row.key_hash
                /\ after.created_at = row.created_at
                /\ after.expires_at = row.expires_at
                /\ after.revoked = row.revoked
                /\ after.metadata = row.metadata
                /\ after # row =>
                      /\ Activated(r)
                      /\ req'[r].resp.message = "License activated."
                      /\ row.activated_at.isNull
                      /\ row.activation_id.isNull
          /\ req'[r].resp.message = "Welcome back!" => db' = db ]_vars

\* C16: in every row, activated_at is set exactly when activation_id is
\* set, so the test 'activation_id is NULL' of the server and the test
\* 'activated_at IS NOT NULL' of the report tell the same rows apart.
C16_ActivatedTogether ==
    \A row \in db : row.activated_at.isNull <=> row.activation_id.isNull

\* two overlapping requests have both written the row, which holds the time
\* and the id of the last write, and another row was never activated
C16_Witness ==
    /\ \E row \in db : row.activated_at.isNull /\ row.activation_id.isNull
    /\ \E r, q \in Reqs :
          /\ r # q
          /\ ToldActivated(r) /\ ToldActivated(q)
          /\ req[r].license_key = req[q].license_key
          /\ \E row \in RowOf(db, r) :
                /\ ~row.activated_at.isNull
                /\ row.activation_id = Val(<<>>)

\* a request answered 'License activated.' before this step had submitted the
\* key of request r without an installation id
BoundToEmptyId(r) ==
    \E q \in Reqs : /\ ToldActivated(q)
                    /\ req[q].license_key = req'[r].license_key
                    /\ req[q].install_id = <<>>

\* C17 (sequential execution): a validation without an installation id of a
\* non-revoked, unexpired, never-activated license is answered 'License
\* activated.' and binds the row to the empty id; afterwards no validation
\* of that license is answered 'License activated.', and, while the license
\* is non-revoked and unexpired, a validation with a non-empty id is answered
\* 'License already used on another device.' and one with an empty id
\* 'Welcome back!'.
C17_EmptyIdBinds ==
    [][ \A r \in Reqs :
          /\ Arrives(r) =>
               \A row \in RowRead(db, r) :
                 /\ ( /\ req'[r].install_id = <<>>
                      /\ ~row.revoked /\ now <= row.expires_at
                      /\ row.activation_id.isNull )
                    => /\ req'[r].pc = "activate"
                       /\ req'[r].resp = LicenseActivated(row)
                 /\ BoundToEmptyId(r) =>
                      /\ row.activation_id = Val(<<>>)
                      /\ req'[r].pc = "done"
                      /\ req'[r].resp.message # "License activated."
                      /\ (~row.revoked /\ now <= row.expires_at) =>
                            req'[r].resp = IF req'[r].install_id = <<>>
                                           THEN WelcomeBack(row)
                                           ELSE OtherDevice
          /\ (Activated(r) /\ req[r].install_id = <<>>) =>
               \A row \in RowOf(db', r) : row.activation_id = Val(<<>>) ]_vars

\* C17 as stated, for every later validation, whatever has become of the
\* license: a non-empty id is answered 'License already used on another
\* device.' and an empty id 'Welcome back!'.
C17_EmptyIdBindsForever ==
    [][ \A r \in Reqs : (Arrives(r) /\ BoundToEmptyId(r)) =>
          \A row \in RowRead(db, r) :
            req'[r].resp = IF req'[r].install_id = <<>>
                           THEN WelcomeBack(row)
                           ELSE OtherDevice ]_vars

\* a request without an installation id activated an unexpired license, and
\* the next request, with an id, was told it is used on another device
C17_Witness ==
    \E q, r \in Reqs :
        /\ q < r
        /\ ToldActivated(q) /\ req[q].install_id = <<>>
        /\ req[r].pc = "done" /\ req[r].resp = OtherDevice
        /\ req[r].license_key = req[q].license_key
        /\ req[r].install_id # <<>>
        /\ \E row \in RowOf(db, q) :
              /\ row.activation_id = Val(<<>>)
              /\ ~row.revoked /\ now <= row.expires_at

\* C18: at the clock of a request for a non-revoked license, the report's
\* filter 'only expired' selects the row exactly when the request is
\* answered 'License expired.', and the filter 'only activated' selects an
\* activated row exactly when the request is not answered 'License expired.'.
C18_ReportAgrees ==
    [][ \A r \in Reqs : Arrives(r) =>
          \A row \in RowRead(db, r) : ~row.revoked =>
            /\ (row \in OnlyExpired(db, now))
                  <=> (req'[r].resp = LicenseExpired)
            /\ ~row.activated_at.isNull =>
                  ((row \in OnlyActivated(db, now))
                     <=> (req'[r].resp # LicenseExpired)) ]_vars

\* C19: while the generator runs, each key generate_license has returned has
\* a row of its own: the table holds as many rows as keys were returned (it
\* was empty when the run began), and the keys returned are pairwise
\* distinct.
C19_OneRowPerKey ==
    phase = "admin" =>
        /\ Cardinality(db) = Len(gen.licenses)
        /\ \A i, j \in 1..Len(gen.licenses) :
              i # j => gen.licenses[i] # gen.licenses[j]

=============================================================================
